---- MODULE Spec2Model ----
(***************************************************************************)
(* A model of analyze.py: the script parses its command line (argparse     *)
(* takes the arguments in order, opening each input file as it meets it),  *)
(* creates one figure with two plot areas, and for each file decodes it as *)
(* native-order uint32 samples, computes the 50/75/90/99 percentiles,      *)
(* builds the histogram label, and adds one line series and one histogram  *)
(* series; then it sets the axis texts, draws the legends and shows the    *)
(* figure, blocking until the window is closed.                            *)
(*                                                                         *)
(* Numbers: a sample is an integer; the inputs keep the most significant   *)
(* byte of a sample at 127 or less, so that every sample is below 2^31.    *)
(* A percentile is a float64, computed as the library computes it: every   *)
(* product, sum and difference is rounded to 53 significant bits, to the   *)
(* nearest, ties to even.  A float64 is kept as an odd integer mantissa,   *)
(* of any size, written in limbs, and a power of two.  Strings are TLA+    *)
(* strings, of ASCII characters.  Standard input is taken to be redirected *)
(* from a regular file, and memory to suffice for every step.              *)
(***************************************************************************)
EXTENDS Integers, Sequences, FiniteSets, TLC

VARIABLES
    argv,         \* the command-line argument strings, in order
    fs,           \* the file system: path -> [readable, bytes]
    stdin,        \* the bytes on standard input
    byteorder,    \* the platform's native byte order
    pc,           \* the statement the script is at
    argi,         \* how many argument strings argparse has gone through
    group,        \* the positional group: "none", "open" (taking) or "done"
    dashed,       \* whether argparse has passed the '--' marker
    extras,       \* whether argparse has set an argument aside as unrecognized
    args_input,   \* args.input: the arguments taken as files, in order
    stdin_pos,    \* how many bytes of standard input have been read
    fig,          \* whether plt.subplots has created the figure
    ax0,          \* the line-plot area: its series, in the order added
    ax1,          \* the histogram area: its series, in the order added
    idx,          \* how many files the for loop has finished
    name,         \* f.name of the file being processed
    a,            \* the samples decoded from that file
    percentiles,  \* np.percentile(a, pcts): four float64
    hist_label,   \* the histogram label being built
    j,            \* how many percentile points the inner loop has appended
    axtext,       \* per area, the ylabel and title once set
    legend0,      \* the entries of the line-plot legend
    legend1,      \* the entries of the histogram legend
    displayed,    \* whether plt.show has put the figure on screen
    window,       \* "none", "open" or "closed"
    exitcode      \* {} while the script runs, {status} once it has exited

vars == <<argv, fs, stdin, byteorder, pc, argi, dashed, group, extras, args_input,
          stdin_pos, fig, ax0, ax1, idx, name, a, percentiles, hist_label, j,
          axtext, legend0, legend1, displayed, window, exitcode>>

(***************************************************************************)
(* Bounds of the model.                                                    *)
(***************************************************************************)
MaxArgs == 3
MaxLen == 8
MaxBytes == 9
MaxSamples == 8

(***************************************************************************)
(* Program constants.                                                      *)
(***************************************************************************)
ItemSize == 4
ByteBase == 256
PctBase == 100
FmtWidth == 2
MantBits == 53
LimbBits == 15
ArgExit == 2
ErrExit == 1
OkExit == 0

pcts == <<50, 75, 90, 99>>

HelpFlags == {"-h", "--help"}
StdinArg == "-"
Marker == "--"
StdinName == "<stdin>"

(***************************************************************************)
(* Input spaces.                                                           *)
(***************************************************************************)
PathNames == {"a", "_u", "-1"}
UnknownFlags == {"-x"}

SeqsUpTo(S, n) == UNION {[1..m -> S] : m \in 0..n}

Unreadable == [readable |-> FALSE, bytes |-> <<>>]
File(b) == [readable |-> TRUE, bytes |-> b]

Range(s) == {s[k] : k \in 1..Len(s)}

StartsWith(s, prefix) ==
    Len(s) >= Len(prefix) /\ SubSeq(s, 1, Len(prefix)) = prefix

(***************************************************************************)
(* np.fromfile(f, dtype=np.uint32): as many whole 4-byte items as the file *)
(* holds from its position on, each read in native byte order; a trailing  *)
(* partial item is not read.                                               *)
(***************************************************************************)
\* Mutant: the items are read as little-endian on every platform.
u32Little(b, k, order) ==
    LET o == ItemSize * (k - 1)
    IN  b[o + 1] + ByteBase * (b[o + 2] + ByteBase * (b[o + 3] + ByteBase * b[o + 4]))

u32(b, k, order) ==
    LET o == ItemSize * (k - 1)
    IN  IF order = "little"
        THEN b[o + 1] + ByteBase * (b[o + 2] + ByteBase * (b[o + 3] + ByteBase * b[o + 4]))
        ELSE b[o + 4] + ByteBase * (b[o + 3] + ByteBase * (b[o + 2] + ByteBase * b[o + 1]))

\* Mutant: a file that is not a whole number of items is not read at all.
ItemCountWholeOnly(b) == IF Len(b) % ItemSize = 0 THEN Len(b) \div ItemSize ELSE 0

ItemCount(b) == Len(b) \div ItemSize

fromfile(b, order) == [k \in 1..ItemCount(b) |-> u32(b, k, order)]

(***************************************************************************)
(* Non-negative integers of any size, as the sequence of their limbs in    *)
(* base 2^15, least significant first, with no leading zero limb.          *)
(***************************************************************************)
LimbBase == 2 ^ LimbBits

Rest(x) == IF x = <<>> THEN <<>> ELSE Tail(x)
Low(x) == IF x = <<>> THEN 0 ELSE x[1]

RECURSIVE Norm(_)
Norm(x) ==
    IF x = <<>> THEN <<>>
    ELSE IF x[Len(x)] = 0 THEN Norm(SubSeq(x, 1, Len(x) - 1))
    ELSE x

RECURSIVE BigOf(_)
BigOf(n) == IF n = 0 THEN <<>> ELSE <<n % LimbBase>> \o BigOf(n \div LimbBase)

RECURSIVE IntOf(_)
IntOf(x) == IF x = <<>> THEN 0 ELSE x[1] + LimbBase * IntOf(Tail(x))

RECURSIVE AddC(_, _, _)
AddC(x, y, c) ==
    IF x = <<>> /\ y = <<>> THEN (IF c = 0 THEN <<>> ELSE <<c>>)
    ELSE LET t == Low(x) + Low(y) + c
         IN  <<t % LimbBase>> \o AddC(Rest(x), Rest(y), t \div LimbBase)

BigAdd(x, y) == AddC(x, y, 0)

RECURSIVE SubC(_, _, _)
SubC(x, y, c) ==
    IF x = <<>> THEN <<>>
    ELSE LET t == Low(x) - Low(y) - c
         IN  IF t < 0 THEN <<t + LimbBase>> \o SubC(Rest(x), Rest(y), 1)
             ELSE <<t>> \o SubC(Rest(x), Rest(y), 0)

\* x - y, for x >= y.
BigSub(x, y) == Norm(SubC(x, y, 0))

RECURSIVE CmpTop(_, _, _)
CmpTop(x, y, k) ==
    IF k = 0 THEN 0
    ELSE IF x[k] < y[k] THEN -1
    ELSE IF x[k] > y[k] THEN 1
    ELSE CmpTop(x, y, k - 1)

\* -1, 0 or 1 as x is below, equal to or above y.
BigCmp(x, y) ==
    IF Len(x) < Len(y) THEN -1
    ELSE IF Len(x) > Len(y) THEN 1
    ELSE CmpTop(x, y, Len(x))

RECURSIVE MulC(_, _, _)
MulC(x, s, c) ==
    IF x = <<>> THEN (IF c = 0 THEN <<>> ELSE <<c>>)
    ELSE LET t == x[1] * s + c
         IN  <<t % LimbBase>> \o MulC(Tail(x), s, t \div LimbBase)

\* x * s, for a single limb s.
BigMulLimb(x, s) == IF s = 0 THEN <<>> ELSE MulC(x, s, 0)

LimbUp(x) == IF x = <<>> THEN <<>> ELSE <<0>> \o x

RECURSIVE BigMul(_, _)
BigMul(x, y) ==
    IF y = <<>> THEN <<>>
    ELSE BigAdd(BigMulLimb(x, y[1]), LimbUp(BigMul(x, Tail(y))))

RECURSIVE DivRem(_, _)
DivRem(x, s) ==
    IF x = <<>> THEN [q |-> <<>>, r |-> 0]
    ELSE LET hi == DivRem(Tail(x), s)
             cur == hi.r * LimbBase + x[1]
         IN  [q |-> <<cur \div s>> \o hi.q, r |-> cur % s]

Zeros(n) == [k \in 1..n |-> 0]

\* x * 2^k.
Shl(x, k) ==
    IF x = <<>> THEN <<>>
    ELSE Zeros(k \div LimbBits) \o BigMulLimb(x, 2 ^ (k % LimbBits))

\* floor(x / 2^k).
Shr(x, k) ==
    LET q == k \div LimbBits
        r == k % LimbBits
        y == IF q >= Len(x) THEN <<>> ELSE SubSeq(x, q + 1, Len(x))
    IN  Norm([i \in 1..Len(y) |->
                (y[i] \div (2 ^ r))
                + (IF i < Len(y) THEN (y[i + 1] % (2 ^ r)) * (2 ^ (LimbBits - r)) ELSE 0)])

\* x mod 2^k.
LowBits(x, k) == BigSub(x, Shl(Shr(x, k), k))

RECURSIVE LimbLen(_)
LimbLen(v) == IF v = 0 THEN 0 ELSE 1 + LimbLen(v \div 2)

BitLen(x) == IF x = <<>> THEN 0 ELSE LimbBits * (Len(x) - 1) + LimbLen(x[Len(x)])

RECURSIVE LimbZeros(_)
LimbZeros(v) == IF v % 2 = 1 THEN 0 ELSE 1 + LimbZeros(v \div 2)

RECURSIVE TrailingZeros(_)
TrailingZeros(x) ==
    IF x[1] = 0 THEN LimbBits + TrailingZeros(Tail(x)) ELSE LimbZeros(x[1])

IsOdd(x) == x # <<>> /\ x[1] % 2 = 1

(***************************************************************************)
(* float64: m * 2^e with m odd (or m = 0 and e = 0), and NaN.  Round is    *)
(* the rounding of an exact m * 2^e to 53 significant bits, to the         *)
(* nearest, ties to even; the four operations round their exact result.    *)
(***************************************************************************)
Float(m, e) ==
    IF m = <<>> THEN [nan |-> FALSE, m |-> <<>>, e |-> 0]
    ELSE LET z == TrailingZeros(m) IN [nan |-> FALSE, m |-> Shr(m, z), e |-> e + z]

NaN == [nan |-> TRUE, m |-> <<>>, e |-> 0]

FloatOf(n) == Float(BigOf(n), 0)

Round(m, e) ==
    LET s == BitLen(m) - MantBits
    IN  IF s <= 0 THEN Float(m, e)
        ELSE LET q == Shr(m, s)
                 c == BigCmp(LowBits(m, s), Shl(<<1>>, s - 1))
                 up == c > 0 \/ (c = 0 /\ IsOdd(q))
             IN  Float(IF up THEN BigAdd(q, <<1>>) ELSE q, e + s)

Min(x, y) == IF x <= y THEN x ELSE y

\* The mantissas of x and y over their common power of two.
Aligned(x, y) ==
    LET e == Min(x.e, y.e)
    IN  [x |-> Shl(x.m, x.e - e), y |-> Shl(y.m, y.e - e), e |-> e]

FAdd(x, y) == LET al == Aligned(x, y) IN Round(BigAdd(al.x, al.y), al.e)

\* x - y, for x >= y.
FSub(x, y) == LET al == Aligned(x, y) IN Round(BigSub(al.x, al.y), al.e)

FMul(x, y) == Round(BigMul(x.m, y.m), x.e + y.e)

FCmp(x, y) == LET al == Aligned(x, y) IN BigCmp(al.x, al.y)

\* n / d, for integers n >= 0 and 0 < d < 2^15: the quotient is taken to 75
\* bits or more, and a bit below them records a remainder.
FDivInt(n, d) ==
    LET qr == DivRem(Shl(BigOf(n), 5 * LimbBits), d)
        q == Norm(qr.q)
        sticky == IF qr.r = 0 THEN <<>> ELSE <<1>>
    IN  Round(BigAdd(Shl(q, 1), sticky), -(5 * LimbBits) - 1)

\* floor(x), as an integer.
FFloor(x) == IntOf(IF x.e >= 0 THEN Shl(x.m, x.e) ELSE Shr(x.m, -x.e))

(***************************************************************************)
(* np.percentile(a, q), method "linear": q/100 as a float64, the virtual   *)
(* index (n-1) * (q/100), its floor and the next index, the samples of     *)
(* those two ranks, the weight gamma = index - floor, and                  *)
(* _lerp(a, b, t) = a + (b-a)*t, or b - (b-a)*(1-t) where t >= 0.5.        *)
(***************************************************************************)
Remove(s, i) == [k \in 1..(Len(s) - 1) |-> IF k < i THEN s[k] ELSE s[k + 1]]

MinIndex(s) == CHOOSE i \in 1..Len(s) : \A k \in 1..Len(s) : s[i] <= s[k]

RECURSIVE Sort(_)
Sort(s) ==
    IF s = <<>> THEN <<>>
    ELSE LET i == MinIndex(s) IN <<s[i]>> \o Sort(Remove(s, i))

Half == Float(<<1>>, -1)
One == FloatOf(1)

\* Mutant: the weight is taken from the wrong end.
LerpInverted(lo, hi, t) ==
    FAdd(FloatOf(lo), FMul(FloatOf(hi - lo), FSub(FloatOf(1), t)))

Lerp(lo, hi, t) ==
    LET diff == FloatOf(hi - lo)
    IN  IF FCmp(t, Half) >= 0
        THEN FSub(FloatOf(hi), FMul(diff, FSub(One, t)))
        ELSE FAdd(FloatOf(lo), FMul(diff, t))

percentile(s, q) ==
    LET n == Len(s)
        arr == Sort(s)
        virtual == FMul(FloatOf(n - 1), FDivInt(q, PctBase))
        prev == FFloor(virtual)
        next == IF prev + 1 > n - 1 THEN n - 1 ELSE prev + 1
        gamma == FSub(virtual, FloatOf(prev))
    IN  Lerp(arr[prev + 1], arr[next + 1], gamma)

(***************************************************************************)
(* The f-string of line 26: f'p{(100-pct):02}={int(percentiles[i])}us '.   *)
(***************************************************************************)
Digit(d) == SubSeq("0123456789", d + 1, d + 1)

RECURSIVE str(_)
str(n) == IF n < 10 THEN Digit(n) ELSE str(n \div 10) \o Digit(n % 10)

RECURSIVE ZeroFill(_, _)
ZeroFill(s, w) == IF Len(s) >= w THEN s ELSE ZeroFill("0" \o s, w)

\* Mutant: the value is rounded to the nearest integer.
intRounded(v) == FFloor(FAdd(v, Half))

int(v) == FFloor(v)

\* Mutant: the f-string ends at 'us', with no space after it.
fstringNoSpace(pct, v) ==
    "p" \o ZeroFill(str(PctBase - pct), FmtWidth) \o "=" \o str(int(v)) \o "us"

fstring(pct, v) ==
    "p" \o ZeroFill(str(PctBase - pct), FmtWidth) \o "=" \o str(int(v)) \o "us "

(***************************************************************************)
(* The state the script starts in, and the way it ends.                    *)
(***************************************************************************)
env == <<argv, fs, stdin, byteorder>>
parsed == <<argi, dashed, group, extras, args_input>>
body == <<stdin_pos, idx, name, a, percentiles, hist_label, j>>
figure == <<fig, ax0, ax1, axtext, legend0, legend1, displayed, window>>

Start ==
    /\ pc = "parse"
    /\ argi = 0
    /\ dashed = FALSE
    /\ group = "none"
    /\ extras = FALSE
    /\ args_input = <<>>
    /\ stdin_pos = 0
    /\ fig = FALSE
    /\ ax0 = <<>>
    /\ ax1 = <<>>
    /\ idx = 0
    /\ name = ""
    /\ a = <<>>
    /\ percentiles = <<>>
    /\ hist_label = ""
    /\ j = 0
    /\ axtext = <<>>
    /\ legend0 = <<>>
    /\ legend1 = <<>>
    /\ displayed = FALSE
    /\ window = "none"
    /\ exitcode = {}

Exit(code) ==
    /\ pc' = "exit"
    /\ exitcode' = {code}

(***************************************************************************)
(* parser.parse_args() (line 11).  argparse goes through the argument      *)
(* strings in order and sorts each into a class:                           *)
(*   - the first '--' is a marker: every string after it is an input file; *)
(*   - the empty string, a string that does not start with '-', and '-'    *)
(*     itself are input files;                                             *)
(*   - '-h' and '--help' are the help option, and so is '--' followed by   *)
(*     the start of 'help' (an abbreviation) and '-h' followed by more     *)
(*     'h' (several short options in one string);                          *)
(*   - a help option with a value attached ('--help=1', '-hx') is an       *)
(*     error;                                                              *)
(*   - of the other strings that start with '-', those that look like a    *)
(*     negative number (also with a line feed at the end) and those that   *)
(*     hold a space are input files, and the rest are options the parser   *)
(*     does not know.                                                      *)
(* The help option prints the help and exits with status 0; an error exits *)
(* with status 2.  An unknown option is set aside, and it closes the group *)
(* of input files if one has been started.  An input file is taken while   *)
(* the group is not closed: '-' is standard input, and a path is opened by *)
(* argparse.FileType('rb') on the spot; a path that cannot be opened ends  *)
(* the run through parser.error, with status 2.  A string that comes after *)
(* the group is closed is set aside, unopened.  At the end, no input file  *)
(* at all (nargs='+') or a string set aside is an error, status 2.         *)
(***************************************************************************)
Char(s, i) == SubSeq(s, i, i)
Has(s, c) == \E i \in 1..Len(s) : Char(s, i) = c
First(s, c) == CHOOSE i \in 1..Len(s) : Char(s, i) = c /\ \A m \in 1..(i - 1) : Char(s, m) # c
Before(s, c) == SubSeq(s, 1, First(s, c) - 1)
After(s, c) == SubSeq(s, First(s, c) + 1, Len(s))

\* The option string of s: what stands before its '=', if it has one.
OptionPart(s) == IF Has(s, "=") THEN Before(s, "=") ELSE s

\* e is one or more 'h': further -h options written in one string.
AllShortHelp(e) == Len(e) > 0 /\ \A i \in 1..Len(e) : Char(e, i) = "h"

IsDigits(s) == \A i \in 1..Len(s) : Char(s, i) \in {"0", "1", "2", "3", "4", "5", "6", "7", "8", "9"}

\* s without the one line feed it may end in: in argparse's pattern '$'
\* stands for the end of the string and also for the place before a line
\* feed that ends it.
Chomp(s) ==
    IF Len(s) > 0 /\ Char(s, Len(s)) = "\n" THEN SubSeq(s, 1, Len(s) - 1) ELSE s

\* argparse's pattern for a negative number, ^-\d+$|^-\d*\.\d+$, matched
\* from the start of s (s starts with '-' where this is asked).
LooksNegative(s) ==
    LET r == Chomp(SubSeq(s, 2, Len(s)))
    IN  \/ Len(r) > 0 /\ IsDigits(r)
        \/ \E i \in 1..(Len(r) - 1) :
              /\ Char(r, i) = "."
              /\ IsDigits(SubSeq(r, 1, i - 1))
              /\ IsDigits(SubSeq(r, i + 1, Len(r)))

Class(s) ==
    IF s = "" THEN "file"
    ELSE IF Char(s, 1) # "-" THEN "file"
    ELSE IF s \in HelpFlags THEN "help"
    ELSE IF Len(s) = 1 THEN "file"
    ELSE IF Has(s, "=") /\ Before(s, "=") = "--help" THEN "error"
    ELSE IF Has(s, "=") /\ Before(s, "=") = "-h"
         THEN (IF AllShortHelp(After(s, "=")) THEN "help" ELSE "error")
    ELSE IF Char(s, 2) = "-" /\ StartsWith("--help", OptionPart(s))
         THEN (IF Has(s, "=") THEN "error" ELSE "help")
    ELSE IF Char(s, 2) # "-" /\ SubSeq(s, 1, 2) = "-h"
         THEN (IF AllShortHelp(SubSeq(s, 3, Len(s))) THEN "help" ELSE "error")
    ELSE IF LooksNegative(s) \/ Has(s, " ") THEN "file"
    ELSE "unknown"

\* The class of s where the parser is now: before or after the marker.
Kind(s) ==
    IF dashed THEN "file" ELSE IF s = Marker THEN "marker" ELSE Class(s)

IsHelp(s) == Kind(s) = "help"
IsFlag(s) == Kind(s) = "unknown"
IsFile(s) == Kind(s) = "file"

CanOpen(s) ==
    IF s = StdinArg THEN TRUE
    ELSE IF s \in DOMAIN fs THEN fs[s].readable
    ELSE FALSE

ParseHelp ==
    /\ pc = "parse"
    /\ argi < Len(argv)
    /\ IsHelp(argv[argi + 1])
    /\ Exit(OkExit)
    /\ UNCHANGED <<env, parsed, body, figure>>

ParseBadOption ==
    /\ pc = "parse"
    /\ argi < Len(argv)
    /\ Kind(argv[argi + 1]) = "error"
    /\ Exit(ArgExit)
    /\ UNCHANGED <<env, parsed, body, figure>>

ParseMarker ==
    /\ pc = "parse"
    /\ argi < Len(argv)
    /\ Kind(argv[argi + 1]) = "marker"
    /\ dashed' = TRUE
    /\ extras' = (extras \/ group = "done")
    /\ argi' = argi + 1
    /\ UNCHANGED <<env, pc, group, args_input, body, figure, exitcode>>

ParseUnknown ==
    /\ pc = "parse"
    /\ argi < Len(argv)
    /\ IsFlag(argv[argi + 1])
    /\ extras' = TRUE
    /\ group' = IF group = "open" THEN "done" ELSE group
    /\ argi' = argi + 1
    /\ UNCHANGED <<env, pc, dashed, args_input, body, figure, exitcode>>

ParseOpen ==
    /\ pc = "parse"
    /\ argi < Len(argv)
    /\ IsFile(argv[argi + 1])
    /\ group # "done"
    /\ CanOpen(argv[argi + 1])
    /\ args_input' = Append(args_input, argv[argi + 1])
    /\ group' = "open"
    /\ argi' = argi + 1
    /\ UNCHANGED <<env, pc, dashed, extras, body, figure, exitcode>>

\* Mutant: a path that cannot be opened is passed over.
ParseErrorSkips ==
    /\ pc = "parse"
    /\ argi < Len(argv)
    /\ IsFile(argv[argi + 1])
    /\ group # "done"
    /\ ~CanOpen(argv[argi + 1])
    /\ argi' = argi + 1
    /\ UNCHANGED <<env, pc, dashed, group, extras, args_input, body, figure, exitcode>>

ParseError ==
    /\ pc = "parse"
    /\ argi < Len(argv)
    /\ IsFile(argv[argi + 1])
    /\ group # "done"
    /\ ~CanOpen(argv[argi + 1])
    /\ Exit(ArgExit)
    /\ UNCHANGED <<env, parsed, body, figure>>

ParseExtra ==
    /\ pc = "parse"
    /\ argi < Len(argv)
    /\ IsFile(argv[argi + 1])
    /\ group = "done"
    /\ extras' = TRUE
    /\ argi' = argi + 1
    /\ UNCHANGED <<env, pc, dashed, group, args_input, body, figure, exitcode>>

ParseRequired ==
    /\ pc = "parse"
    /\ argi = Len(argv)
    /\ group = "none"
    /\ Exit(ArgExit)
    /\ UNCHANGED <<env, parsed, body, figure>>

ParseUnrecognized ==
    /\ pc = "parse"
    /\ argi = Len(argv)
    /\ group # "none"
    /\ extras
    /\ Exit(ArgExit)
    /\ UNCHANGED <<env, parsed, body, figure>>

ParseDone ==
    /\ pc = "parse"
    /\ argi = Len(argv)
    /\ group # "none"
    /\ ~extras
    /\ pc' = "subplots"
    /\ UNCHANGED <<env, parsed, body, figure, exitcode>>

(***************************************************************************)
(* fig, ax = plt.subplots(1, 2, ...) (line 15).                            *)
(***************************************************************************)
Subplots ==
    /\ pc = "subplots"
    /\ fig' = TRUE
    /\ ax0' = <<>>
    /\ ax1' = <<>>
    /\ pc' = "for"
    /\ UNCHANGED <<env, parsed, body, axtext, legend0, legend1, displayed,
                   window, exitcode>>

(***************************************************************************)
(* for f in args.input: name = f.name (lines 19-20).  The name of a file   *)
(* argparse opened is its path; the name of standard input is '<stdin>'.   *)
(***************************************************************************)
fname(arg) == IF arg = StdinArg THEN StdinName ELSE arg

ForNext ==
    /\ pc = "for"
    /\ idx < Len(args_input)
    /\ name' = fname(args_input[idx + 1])
    /\ pc' = "fromfile"
    /\ UNCHANGED <<env, parsed, stdin_pos, idx, a, percentiles, hist_label, j,
                   figure, exitcode>>

ForEnd ==
    /\ pc = "for"
    /\ idx = Len(args_input)
    /\ pc' = "set"
    /\ UNCHANGED <<env, parsed, body, figure, exitcode>>

(***************************************************************************)
(* a = np.fromfile(f, dtype=np.uint32) (line 21).  A path named twice was  *)
(* opened twice, and each handle reads from the start; standard input is   *)
(* one stream, read on from where the last read of it ended.               *)
(***************************************************************************)
Unread == SubSeq(stdin, stdin_pos + 1, Len(stdin))

FromFile ==
    /\ pc = "fromfile"
    /\ IF args_input[idx + 1] = StdinArg
       THEN /\ a' = fromfile(Unread, byteorder)
            /\ stdin_pos' = stdin_pos + ItemSize * ItemCount(Unread)
       ELSE /\ a' = fromfile(fs[args_input[idx + 1]].bytes, byteorder)
            /\ stdin_pos' = stdin_pos
    /\ pc' = "percentile"
    /\ UNCHANGED <<env, parsed, idx, name, percentiles, hist_label, j, figure,
                   exitcode>>

(***************************************************************************)
(* percentiles = np.percentile(a, pcts) (line 23).  Of an empty array the  *)
(* library either raises (IndexError, an uncaught exception: status 1) or  *)
(* returns NaN for every point, depending on its version.                  *)
(***************************************************************************)
Percentile ==
    /\ pc = "percentile"
    /\ Len(a) > 0
    /\ percentiles' = [k \in 1..Len(pcts) |-> percentile(a, pcts[k])]
    /\ pc' = "labelstart"
    /\ UNCHANGED <<env, parsed, stdin_pos, idx, name, a, hist_label, j, figure,
                   exitcode>>

PercentileEmptyRaises ==
    /\ pc = "percentile"
    /\ Len(a) = 0
    /\ Exit(ErrExit)
    /\ UNCHANGED <<env, parsed, body, figure>>

PercentileEmptyNaN ==
    /\ pc = "percentile"
    /\ Len(a) = 0
    /\ percentiles' = [k \in 1..Len(pcts) |-> NaN]
    /\ pc' = "labelstart"
    /\ UNCHANGED <<env, parsed, stdin_pos, idx, name, a, hist_label, j, figure,
                   exitcode>>

(***************************************************************************)
(* hist_label = name + ' (' (line 24); the loop over pcts appending one    *)
(* f-string each (lines 25-26), where int() of a NaN raises ValueError     *)
(* (uncaught: status 1); hist_label += ')' (line 27).                      *)
(***************************************************************************)
LabelStart ==
    /\ pc = "labelstart"
    /\ hist_label' = name \o " ("
    /\ j' = 0
    /\ pc' = "label"
    /\ UNCHANGED <<env, parsed, stdin_pos, idx, name, a, percentiles, figure,
                   exitcode>>

LabelAppend ==
    /\ pc = "label"
    /\ j < Len(pcts)
    /\ ~percentiles[j + 1].nan
    /\ hist_label' = hist_label \o fstring(pcts[j + 1], percentiles[j + 1])
    /\ j' = j + 1
    /\ UNCHANGED <<env, parsed, pc, stdin_pos, idx, name, a, percentiles, figure,
                   exitcode>>

\* Mutant: int() of a NaN gives 0 instead of raising.
LabelNaNAsZero ==
    /\ pc = "label"
    /\ j < Len(pcts)
    /\ percentiles[j + 1].nan
    /\ hist_label' = hist_label \o fstring(pcts[j + 1], FloatOf(0))
    /\ j' = j + 1
    /\ UNCHANGED <<env, parsed, pc, stdin_pos, idx, name, a, percentiles, figure,
                   exitcode>>

LabelNaN ==
    /\ pc = "label"
    /\ j < Len(pcts)
    /\ percentiles[j + 1].nan
    /\ Exit(ErrExit)
    /\ UNCHANGED <<env, parsed, body, figure>>

LabelClose ==
    /\ pc = "label"
    /\ j = Len(pcts)
    /\ hist_label' = hist_label \o ")"
    /\ pc' = "plot"
    /\ UNCHANGED <<env, parsed, stdin_pos, idx, name, a, percentiles, j, figure,
                   exitcode>>

(***************************************************************************)
(* ax[0].plot(a, label=name) (line 29) and                                 *)
(* ax[1].hist(a, label=hist_label, bins='auto') (line 30), which ends the  *)
(* loop body.                                                              *)
(***************************************************************************)
Series(data, label) == [data |-> data, label |-> label]

Plot ==
    /\ pc = "plot"
    /\ ax0' = Append(ax0, Series(a, name))
    /\ pc' = "hist"
    /\ UNCHANGED <<env, parsed, body, fig, ax1, axtext, legend0, legend1,
                   displayed, window, exitcode>>

Hist ==
    /\ pc = "hist"
    /\ ax1' = Append(ax1, Series(a, hist_label))
    /\ idx' = idx + 1
    /\ pc' = "for"
    /\ UNCHANGED <<env, parsed, stdin_pos, name, a, percentiles, hist_label, j,
                   fig, ax0, axtext, legend0, legend1, displayed, window,
                   exitcode>>

(***************************************************************************)
(* ax[.].set(ylabel=..., title=...) (lines 32-33), ax[.].legend(...)       *)
(* (lines 35-36), plt.show() (line 41), and the user closing the window,   *)
(* which lets plt.show return and the script end with status 0.  A legend  *)
(* lists the labels of the area's series in the order they were added,     *)
(* leaving out a label that is empty or starts with an underscore.         *)
(***************************************************************************)
AxisText == [ylabel |-> "time (us)", title |-> "Rendering time"]

Listed(label) == label # "" /\ ~StartsWith(label, "_")

Labels(ax) == SelectSeq([k \in 1..Len(ax) |-> ax[k].label], Listed)

SetAxes ==
    /\ pc = "set"
    /\ axtext' = <<AxisText, AxisText>>
    /\ pc' = "legend"
    /\ UNCHANGED <<env, parsed, body, fig, ax0, ax1, legend0, legend1,
                   displayed, window, exitcode>>

Legend ==
    /\ pc = "legend"
    /\ legend0' = Labels(ax0)
    /\ legend1' = Labels(ax1)
    /\ pc' = "show"
    /\ UNCHANGED <<env, parsed, body, fig, ax0, ax1, axtext, displayed, window,
                   exitcode>>

\* Mutant: plt.show does not block, and the script ends with the window open.
ShowReturnsAtOnce ==
    /\ pc = "show"
    /\ displayed' = TRUE
    /\ window' = "open"
    /\ Exit(OkExit)
    /\ UNCHANGED <<env, parsed, body, fig, ax0, ax1, axtext, legend0, legend1>>

\* plt.show() with an interactive backend: the window opens and the call
\* blocks until the window is closed.
Show ==
    /\ pc = "show"
    /\ displayed' = TRUE
    /\ window' = "open"
    /\ pc' = "blocked"
    /\ UNCHANGED <<env, parsed, body, fig, ax0, ax1, axtext, legend0, legend1,
                   exitcode>>

\* plt.show() with a non-interactive backend (the one matplotlib falls back
\* to where no display is to be had): nothing is displayed, the call
\* returns at once, and the script ends.
ShowNoWindow ==
    /\ pc = "show"
    /\ Exit(OkExit)
    /\ UNCHANGED <<env, parsed, body, figure>>

CloseWindow ==
    /\ pc = "blocked"
    /\ window' = "closed"
    /\ Exit(OkExit)
    /\ UNCHANGED <<env, parsed, body, fig, ax0, ax1, axtext, legend0, legend1,
                   displayed>>

Next ==
    \/ ParseHelp
    \/ ParseBadOption
    \/ ParseMarker
    \/ ParseUnknown
    \/ ParseOpen
    \/ ParseError
    \/ ParseExtra
    \/ ParseRequired
    \/ ParseUnrecognized
    \/ ParseDone
    \/ Subplots
    \/ ForNext
    \/ ForEnd
    \/ FromFile
    \/ Percentile
    \/ PercentileEmptyRaises
    \/ PercentileEmptyNaN
    \/ LabelStart
    \/ LabelAppend
    \/ LabelNaN
    \/ LabelClose
    \/ Plot
    \/ Hist
    \/ SetAxes
    \/ Legend
    \/ Show
    \/ ShowNoWindow
    \/ CloseWindow

(***************************************************************************)
(* The file a writer of native-order uint32 samples leaves on disk: four   *)
(* bytes per sample.                                                       *)
(***************************************************************************)
Bytes4(x, order) ==
    LET le == <<x % ByteBase,
                (x \div ByteBase) % ByteBase,
                (x \div (ByteBase * ByteBase)) % ByteBase,
                x \div (ByteBase * ByteBase * ByteBase)>>
    IN  IF order = "little" THEN le ELSE <<le[4], le[3], le[2], le[1]>>

RECURSIVE tobytes(_, _)
tobytes(s, order) ==
    IF s = <<>> THEN <<>> ELSE Bytes4(Head(s), order) \o tobytes(Tail(s), order)

(***************************************************************************)
(* Spec: command lines of up to MaxArgs strings, with a string or more of  *)
(* every class the parser tells apart, and the command lines of LongLines. *)
(* The paths "a", "_u" and "-1" may name files: the file "a" is unreadable *)
(* or holds up to MaxLen bytes, the other two hold one sample; no other    *)
(* string names a file.  Standard input holds up to MaxLen bytes.  A file  *)
(* of n bytes holds the bytes 1, 2, ..., n.  A source that is not on the   *)
(* command line is never looked at: such a path is left unreadable and     *)
(* standard input is left empty.                                           *)
(***************************************************************************)
ByteOrders == {"little", "big"}
OtherArgs == {"--he", "-hx", "--help=1", "-a b"}
Args == PathNames \cup {StdinArg, Marker} \cup HelpFlags \cup UnknownFlags \cup OtherArgs

\* Some longer command lines, and some with a string that ends in a line
\* feed; "b" names no file.
LongLines ==
    {<<"a", "-x", "b", "-h">>, <<"a", "-x", "b", "a">>, <<"a", "b", "-x", "-h">>,
     <<"-x", "b", "-h", "a">>, <<"a", "--", "-x", "-h">>, <<"a", "-", "_u", "-1">>,
     <<"-1\n", "-h">>, <<"-1\n">>, <<"a", "-1.5\n">>, <<"-h\n">>, <<"-x\n", "-h">>}

Pattern(n) == [k \in 1..n |-> k]
RunLens == {0, ItemSize - 1, ItemSize, MaxLen}

\* What a source holds in a run on the command line line.
Contents(p, line) ==
    IF p \notin Range(line) THEN {Unreadable}
    ELSE IF p = "a" THEN {Unreadable} \cup {File(Pattern(n)) : n \in RunLens}
    ELSE {File(Pattern(ItemSize))}

StdinContents(line) ==
    IF StdinArg \in Range(line) THEN {Pattern(n) : n \in RunLens} ELSE {<<>>}

Init ==
    /\ argv \in SeqsUpTo(Args, MaxArgs) \cup LongLines
    /\ byteorder \in ByteOrders
    /\ \E c \in Contents("a", argv) :
          fs = [p \in PathNames |->
                   IF p = "a" THEN c ELSE CHOOSE f \in Contents(p, argv) : TRUE]
    /\ stdin \in StdinContents(argv)
    /\ Start

Spec == Init /\ [][Next]_vars

(***************************************************************************)
(* The runs on one source: the command line names the path "a" or standard *)
(* input, and that source has the given content.  OtherRun: one of a few   *)
(* other command lines, where "a" and standard input hold the samples 1, 2 *)
(* and "_u" and "-1" the sample 3.                                         *)
(***************************************************************************)
OneSource(content) ==
    \/ /\ argv = <<"a">>
       /\ fs = [p \in PathNames |-> IF p = "a" THEN content ELSE Unreadable]
       /\ stdin = <<>>
    \/ /\ argv = <<StdinArg>>
       /\ content.readable
       /\ fs = [p \in PathNames |-> Unreadable]
       /\ stdin = content.bytes

OtherLines ==
    {<<>>, <<"--help">>, <<"a", "-h">>, <<"a", "-x", "a">>, <<"-x", "a">>,
     <<"_u", "a">>, <<"-", "-">>, <<"--he">>, <<"-hx", "-h">>, <<"--", "a">>,
     <<"a", "--", "-1">>}

OtherRun ==
    /\ argv \in OtherLines
    /\ fs = [p \in PathNames |->
                IF p \notin Range(argv) THEN Unreadable
                ELSE IF p = "a" THEN File(tobytes(<<1, 2>>, byteorder))
                ELSE File(tobytes(<<3>>, byteorder))]
    /\ stdin = IF StdinArg \in Range(argv) THEN tobytes(<<1, 2>>, byteorder) ELSE <<>>

(***************************************************************************)
(* SpecDecode: one source, unreadable or any buffer of up to MaxBytes      *)
(* bytes that are 0 or 127.  127 is the largest byte the most significant position can hold  *)
(* here.                                                                   *)
(***************************************************************************)
DecodeBytes == {0, 127}

InitDecode ==
    /\ byteorder \in ByteOrders
    /\ \/ \E c \in {Unreadable} \cup {File(b) : b \in SeqsUpTo(DecodeBytes, MaxBytes)} :
             OneSource(c)
       \/ OtherRun
    /\ Start

SpecDecode == InitDecode /\ [][Next]_vars

(***************************************************************************)
(* SpecPct: one source, unreadable or holding up to MaxSamples samples     *)
(* that are 0 or 10, or up to MaxWide samples of a wider range, or the 100 *)
(* samples 10, 20, 30, 40 repeated 25 times.                               *)
(***************************************************************************)
MaxWide == 3
SampleVals == {0, 10}
WideVals == {0, 10, 123, 124, 16777215}
Repeated == [k \in 1..100 |-> 10 * (((k - 1) % 4) + 1)]

PctInputs ==
    SeqsUpTo(SampleVals, MaxSamples) \cup SeqsUpTo(WideVals, MaxWide) \cup {Repeated}

InitPct ==
    /\ byteorder \in ByteOrders
    /\ \/ \E c \in {Unreadable} \cup {File(tobytes(s, byteorder)) : s \in PctInputs} :
             OneSource(c)
       \/ OtherRun
    /\ Start

SpecPct == InitPct /\ [][Next]_vars

(***************************************************************************)
(* Terms the properties below are stated in.  They are read off the        *)
(* command line, the file system and standard input as they are before the *)
(* run, not off the parser's state.                                        *)
(***************************************************************************)
Exited == pc = "exit"
ExitedWith(code) == pc = "exit" /\ exitcode = {code}

Positions == 1..Len(argv)

\* The class of the k-th string of the command line: the first '--' is the
\* marker, every string after it is an input file, and a string before it
\* has the class its spelling gives it, which ClassOf holds for each string
\* a command line is made of.
MarkerAt(k) == argv[k] = Marker /\ \A i \in 1..(k - 1) : argv[i] # Marker

ClassOf == [s \in Args \cup UNION {Range(line) : line \in LongLines} |-> Class(s)]

KindAt(k) ==
    IF \E i \in 1..(k - 1) : argv[i] = Marker THEN "file"
    ELSE IF argv[k] = Marker THEN "marker"
    ELSE ClassOf[argv[k]]

Readable(s) ==
    IF s = StdinArg THEN TRUE
    ELSE IF s \in DOMAIN fs THEN fs[s].readable
    ELSE FALSE

\* The k-th string is taken as an input file: it is an input file, and no
\* unknown option after an earlier input file has closed the list.
Taken(k) ==
    /\ KindAt(k) = "file"
    /\ ~\E i, m \in 1..(k - 1) : i < m /\ KindAt(i) = "file" /\ KindAt(m) = "unknown"

\* The k-th string is a path that the parser tries to open and cannot.
OpenFails(k) == Taken(k) /\ ~Readable(argv[k])

\* The k-th string is a help option with a value attached.
BadOption(k) == KindAt(k) = "error"

\* A help option is reached before any path that cannot be opened and any
\* option with a value it does not take.
HelpShown ==
    \E k \in Positions :
        KindAt(k) = "help" /\ \A i \in 1..(k - 1) : ~OpenFails(i) /\ ~BadOption(i)

\* The parser rejects the command line.
Rejected ==
    /\ ~HelpShown
    /\ \/ \E k \in Positions : OpenFails(k) \/ BadOption(k)
       \/ ~\E k \in Positions : Taken(k)
       \/ \E k \in Positions : KindAt(k) = "unknown"

Accepted == ~HelpShown /\ ~Rejected

\* An ArgumentError as the spec describes it: no input file is given, or
\* one of the given paths cannot be opened.
ArgError ==
    \/ ~\E k \in Positions : KindAt(k) = "file"
    \/ \E k \in Positions : KindAt(k) = "file" /\ ~Readable(argv[k])

\* The input files of an accepted command line: its strings but the
\* marker.  Inputs is how many there are and Path(n) is the n-th of them.
Inputs == Cardinality({k \in Positions : ~MarkerAt(k)})
Path(n) == IF \E k \in 1..n : MarkerAt(k) THEN argv[n + 1] ELSE argv[n]

\* What the n-th input of an accepted command line has to be read: a file's
\* bytes; all of standard input where '-' is named first; and where '-' is
\* named again, what the first read of it left.
Whole(b) == SubSeq(b, 1, ItemSize * (Len(b) \div ItemSize))
Leftover(b) == SubSeq(b, ItemSize * (Len(b) \div ItemSize) + 1, Len(b))

Input(n) ==
    IF Path(n) # StdinArg THEN fs[Path(n)].bytes
    ELSE IF \E i \in 1..(n - 1) : Path(i) = StdinArg THEN Leftover(stdin)
    ELSE stdin

\* The inputs that hold no complete item, and the first of them.
EmptyInputs == {n \in 1..Inputs : Len(Input(n)) < ItemSize}
FirstEmpty == CHOOSE n \in EmptyInputs : \A m \in EmptyInputs : n <= m
ShortFiles == {n \in 1..Inputs : Path(n) # StdinArg /\ Len(fs[Path(n)].bytes) < ItemSize}

\* a holds the samples decoded from the source called name, and Buffer is
\* what that source had to be read.
Decoded == name # "" /\ pc # "fromfile"

Buffer ==
    IF name = StdinName
    THEN SubSeq(stdin, stdin_pos - ItemSize * Len(a) + 1, Len(stdin))
    ELSE fs[name].bytes

\* percentiles holds the four percentiles of a non-empty a.
Computed ==
    /\ Decoded
    /\ pc \notin {"percentile", "exit"}
    /\ Len(a) > 0
    /\ Len(percentiles) = Len(pcts)

NothingProcessed ==
    /\ fig = FALSE
    /\ name = "" /\ a = <<>> /\ percentiles = <<>> /\ hist_label = ""
    /\ stdin_pos = 0
    /\ ax0 = <<>> /\ ax1 = <<>> /\ idx = 0
    /\ axtext = <<>> /\ legend0 = <<>> /\ legend1 = <<>>
    /\ ~displayed /\ window = "none"

(***************************************************************************)
(* C1: at the head of the per-file loop, after k files, the line-plot area *)
(* and the histogram area hold k series each, the i-th carrying the        *)
(* samples of the i-th command-line file and a label that starts with its  *)
(* path; and once the legends are drawn after the loop, each has one entry *)
(* per command-line file, in order, starting with that file's path.        *)
(***************************************************************************)
SeriesOfFile(ser, k) ==
    /\ Len(ser.data) = Len(Input(k)) \div ItemSize
    /\ tobytes(ser.data, byteorder) = Whole(Input(k))
    /\ StartsWith(ser.label, Path(k))

C1_OneSeriesPerFile ==
    /\ pc = "for" =>
          /\ Len(ax0) = idx
          /\ Len(ax1) = idx
          /\ \A k \in 1..idx : SeriesOfFile(ax0[k], k) /\ SeriesOfFile(ax1[k], k)
    /\ pc \in {"show", "blocked"} =>
          /\ Len(legend0) = Inputs
          /\ Len(legend1) = Inputs
          /\ \A k \in 1..Inputs :
                StartsWith(legend0[k], Path(k)) /\ StartsWith(legend1[k], Path(k))

(***************************************************************************)
(* C2, as the spec states it: when no input file is given or some path, at *)
(* any position, cannot be opened, the run never leaves the argument       *)
(* parser: nothing is decoded, computed, created, added or displayed, and  *)
(* when it has exited its status is not 0.                                 *)
(***************************************************************************)
C2_Original ==
    ArgError =>
        /\ pc \in {"parse", "exit"}
        /\ NothingProcessed
        /\ Exited => exitcode # {} /\ OkExit \notin exitcode

(***************************************************************************)
(* C2, amended: when no input file is given or some path, at any position, *)
(* cannot be opened, the run never leaves the argument parser: nothing is  *)
(* decoded, computed, created, added or displayed.  Its exit status is 2,  *)
(* unless the parser, which takes the strings in order, reaches a help     *)
(* option before it stops at an error (a path it tries to open and cannot, *)
(* or a help option with a value attached): then the status is 0.  A help  *)
(* option is -h, --help, an abbreviation of --help or -h followed by more  *)
(* h, standing before any '--'.  A path is opened only as the parser takes *)
(* it.                                                                     *)
(***************************************************************************)
C2_ArgErrorAbortsBeforeProcessing ==
    /\ (ArgError \/ HelpShown) =>
          /\ pc \in {"parse", "exit"}
          /\ NothingProcessed
          /\ Exited => exitcode = IF HelpShown THEN {OkExit} ELSE {ArgExit}
    /\ \A k \in 1..Len(args_input) : \E i \in 1..argi : argv[i] = args_input[k]

C2_Witness ==
    /\ ExitedWith(ArgExit)
    /\ Len(argv) = 2
    /\ Taken(1) /\ argv[1] # StdinArg /\ Readable(argv[1])
    /\ OpenFails(2)
    /\ args_input = <<argv[1]>>

(***************************************************************************)
(* C3, as the spec states it: the exit status is non-zero exactly when no  *)
(* input file is given or a path cannot be opened, and is 0 in every other *)
(* run, only after the figure was displayed and the window closed.         *)
(***************************************************************************)
C3_Original ==
    /\ Exited => (OkExit \notin exitcode <=> ArgError)
    /\ ExitedWith(OkExit) => displayed /\ window = "closed"
    /\ window = "open" => pc = "blocked"

(***************************************************************************)
(* C3, amended: the exit status is 2 exactly when the parser rejects the   *)
(* command line (no input file, a path it tries to open and cannot, an     *)
(* option it does not know, a help option with a value attached), and 1    *)
(* only on a command line the parser accepts, when an uncaught exception   *)
(* ends the run: that always happens when some input holds no complete     *)
(* 4-byte item.  When the parser reaches a help option first the status is *)
(* 0 with nothing displayed.  In every other run it is 0, only after the   *)
(* display step has returned: with an interactive backend the figure was   *)
(* displayed and the window closed, and while the window is open the       *)
(* script is blocked in plt.show; with a non-interactive backend nothing   *)
(* was displayed.  The script never ends with the window open.             *)
(***************************************************************************)
C3_ExitStatus ==
    /\ Exited => exitcode \in {{OkExit}, {ErrExit}, {ArgExit}}
    /\ Exited => (exitcode = {ArgExit} <=> Rejected)
    /\ (Exited /\ exitcode = {ErrExit}) => Accepted
    /\ (Exited /\ Accepted /\ EmptyInputs # {}) => exitcode = {ErrExit}
    /\ (Exited /\ HelpShown) => exitcode = {OkExit} /\ ~displayed /\ window = "none"
    /\ (ExitedWith(OkExit) /\ ~HelpShown) =>
          /\ pc = "exit" /\ fig /\ idx = Inputs
          /\ \/ displayed /\ window = "closed"
             \/ ~displayed /\ window = "none"
    /\ window = "open" => pc = "blocked" /\ displayed
    /\ displayed <=> window # "none"

C3_Witness ==
    /\ ExitedWith(OkExit)
    /\ Len(args_input) = 2
    /\ window = "closed"

(***************************************************************************)
(* C4: on an accepted command line, a file with fewer than 4 bytes decodes *)
(* to no samples and the run ends in an error at the first input with no   *)
(* complete item: the loop never gets past it, no series is added for it,  *)
(* the figure is never displayed, and the exit status is the uncaught      *)
(* exception's, whatever inputs precede or follow.                         *)
(***************************************************************************)
C4_EmptyFileFails ==
    (Accepted /\ ShortFiles # {}) =>
        LET first == FirstEmpty
        IN  /\ idx < first
            /\ Len(ax0) < first /\ Len(ax1) < first
            /\ ~displayed /\ window = "none"
            /\ pc \notin {"set", "legend", "show", "blocked"}
            /\ (idx = first - 1 /\ pc \notin {"parse", "subplots", "for", "fromfile"}) =>
                  /\ a = <<>>
                  /\ pc \in {"percentile", "labelstart", "label", "exit"}
                  /\ pc = "label" => j = 0
            /\ Exited =>
                  /\ exitcode = {ErrExit}
                  /\ idx = first - 1
                  /\ a = <<>>
                  /\ Len(ax0) = idx /\ Len(ax1) = idx

C4_Witness ==
    /\ ExitedWith(ErrExit)
    /\ Inputs = 3
    /\ ShortFiles = {2}
    /\ EmptyInputs = {2}
    /\ Len(Input(2)) > 0
    /\ Len(ax0) = 1

(***************************************************************************)
(* C5: a buffer whose length is not a multiple of 4 decodes to exactly     *)
(* floor(length/4) samples, which are the samples of its first             *)
(* 4*floor(length/4) bytes (written back in native order they give those   *)
(* bytes again); the 1 to 3 trailing bytes raise no error: the percentile  *)
(* step that follows gives four numbers, and a run only fails on a buffer  *)
(* with no complete item.                                                  *)
(***************************************************************************)
C5_TruncationLaw ==
    /\ (Decoded /\ Len(Buffer) % ItemSize # 0) =>
          /\ Len(a) = Len(Buffer) \div ItemSize
          /\ tobytes(a, byteorder) = Whole(Buffer)
          /\ \A k \in 1..Len(a) : a[k] >= 0
          /\ pc = "exit" => Len(a) = 0 \/ exitcode = {OkExit}
    /\ (pc = "labelstart" /\ Len(a) > 0) =>
          /\ Len(percentiles) = Len(pcts)
          /\ \A k \in 1..Len(pcts) : ~percentiles[k].nan

C5_Witness ==
    /\ Decoded
    /\ Len(Buffer) = 2 * ItemSize + 1
    /\ Len(a) = 2
    /\ ExitedWith(OkExit)

(***************************************************************************)
(* C6: a non-empty buffer whose length is a multiple of 4 decodes to       *)
(* exactly length/4 samples, each an unsigned 32-bit value, and writing    *)
(* the samples back as 4 bytes each in the same byte order gives the       *)
(* buffer again.                                                           *)
(***************************************************************************)
HalfWord == ByteBase * ByteBase

C6_RoundTrip ==
    (Decoded /\ Len(Buffer) > 0 /\ Len(Buffer) % ItemSize = 0) =>
        /\ ItemSize * Len(a) = Len(Buffer)
        /\ \A k \in 1..Len(a) : a[k] >= 0 /\ a[k] \div HalfWord < HalfWord
        /\ tobytes(a, byteorder) = Buffer

C6_Witness ==
    /\ Decoded
    /\ name = StdinName
    /\ Buffer = <<0, 0, 127, 0, 127, 0, 0, 0>>
    /\ byteorder = "big"
    /\ a = <<127 * 256, 127 * 16777216>>

(***************************************************************************)
(* C7: the four percentiles of a non-empty sample sequence do not decrease *)
(* with the percentile point: p50 <= p75 <= p90 <= p99.                    *)
(***************************************************************************)
C7_PercentilesMonotone ==
    Computed =>
        \A k \in 1..(Len(pcts) - 1) : FCmp(percentiles[k], percentiles[k + 1]) <= 0

C7_Witness ==
    /\ Computed
    /\ Len(a) = MaxWide
    /\ \E k \in 1..(Len(a) - 1) : a[k] > a[k + 1]
    /\ \A k \in 1..(Len(pcts) - 1) : FCmp(percentiles[k], percentiles[k + 1]) < 0

(***************************************************************************)
(* C8: the piece appended for percentile point P with value v is the       *)
(* sub-label 'p' + (100-P in at least two digits, zero-padded) + '=' + (v  *)
(* truncated to an integer t, t <= v < t+1) + 'us', followed by one space: *)
(* after m points the label is the name, ' (' and the first m such pieces. *)
(* The prefixes are p50, p25, p10, p01, and point 90 with value 123.9      *)
(* gives p10=123us.                                                        *)
(***************************************************************************)
Prefixes == <<"p50", "p25", "p10", "p01">>
TwoDigits(n) == IF n < 10 THEN "0" \o ToString(n) ELSE ToString(n)
SubLabel(k, t) == "p" \o TwoDigits(PctBase - pcts[k]) \o "=" \o ToString(t) \o "us"

Truncates(t, v) == FCmp(FloatOf(t), v) <= 0 /\ FCmp(v, FloatOf(t + 1)) < 0

\* The integer the label shows for v: the digits between '=' and 'us '.
Shown(v) == FFloor(v)

RECURSIVE Pieces(_, _)
Pieces(vs, m) ==
    IF m = 0 THEN "" ELSE Pieces(vs, m - 1) \o SubLabel(m, Shown(vs[m])) \o " "

C8_SubLabelFormat ==
    /\ \A k \in 1..Len(pcts) : StartsWith(SubLabel(k, 0), Prefixes[k] \o "=")
    /\ (pc = "label" /\ ~percentiles[1].nan) =>
          /\ hist_label = name \o " (" \o Pieces(percentiles, j)
          /\ \A k \in 1..j :
                /\ Truncates(Shown(percentiles[k]), percentiles[k])
                /\ fstring(pcts[k], percentiles[k]) = SubLabel(k, Shown(percentiles[k])) \o " "
    /\ (pc = "label" /\ j >= 3 /\ percentiles[3] = FDivInt(1239, 10)) =>
          StartsWith(fstring(pcts[3], percentiles[3]), "p10=123us")
    /\ (pc = "label" /\ j = Len(pcts) /\ Range(a) = {123, 124} /\ Len(a) = 2) =>
          hist_label = name \o " (p50=123us p25=123us p10=123us p01=123us "

C8_Witness ==
    /\ pc = "label"
    /\ j = Len(pcts)
    /\ percentiles[3] = FDivInt(1239, 10)
    /\ a = <<124, 123>>

(***************************************************************************)
(* C9, as the spec states it: a file's histogram label is its path         *)
(* followed by the four sub-labels in parentheses, one space between       *)
(* consecutive sub-labels and none after the last; its line-plot label is  *)
(* the bare path.  The series get their labels in the loop body, so the    *)
(* labels are looked at each time the loop is back at its head.  The claim *)
(* is about files given by a path: GivenByPath leaves aside an input that  *)
(* is standard input, given as '-'.                                        *)
(***************************************************************************)
Values(data) == [k \in 1..Len(pcts) |-> percentile(data, pcts[k])]

RECURSIVE Joined(_, _)
Joined(vs, m) ==
    IF m = 0 THEN ""
    ELSE IF m = 1 THEN SubLabel(1, Shown(vs[1]))
    ELSE Joined(vs, m - 1) \o " " \o SubLabel(m, Shown(vs[m]))

GivenByPath(k) == args_input[k] # StdinArg

C9_Original ==
    pc = "for" => \A k \in 1..Len(ax1) : GivenByPath(k) =>
        /\ ax1[k].label = args_input[k] \o " (" \o Joined(Values(ax1[k].data), Len(pcts)) \o ")"
        /\ k <= Len(ax0) /\ ax0[k].label = args_input[k]

(***************************************************************************)
(* C9, amended: the label of the histogram series of a file given by its   *)
(* path is the path, ' (', the four sub-labels each followed by one space  *)
(* (so one space stands between consecutive sub-labels and also after the  *)
(* last, before the closing parenthesis), and ')'; the label of its        *)
(* line-plot series is the bare path (looked at each time the loop is back *)
(* at its head).                                                           *)
(***************************************************************************)
C9_HistogramLabel ==
    pc = "for" => \A k \in 1..Len(ax1) : GivenByPath(k) =>
        /\ ax1[k].label = args_input[k] \o " (" \o Joined(Values(ax1[k].data), Len(pcts)) \o " )"
        /\ k <= Len(ax0) /\ ax0[k].label = args_input[k]

C9_Witness ==
    /\ pc = "for"
    /\ args_input = <<"a">>
    /\ Len(ax1) = 1
    /\ Len(ax1[1].data) > 1
    /\ ax1[1].label = "a (p50=5us p25=7us p10=9us p01=9us )"
    /\ ax0[1].label = "a"

(***************************************************************************)
(* C10: each percentile is the linear interpolation between closest ranks: *)
(* with the n samples in ascending order s[0..n-1] and h = (n-1)*P/100,    *)
(* it is s[floor(h)] + (h - floor(h)) * (s[ceil(h)] - s[floor(h)]),        *)
(* whatever the order of the samples in the file.  The value of the        *)
(* formula need not be a float64 (9.9 is none), so the statement is taken  *)
(* on the part of the percentile that the label shows: its integer part is *)
(* that of the formula's value.  The sample of rank r is the value with at *)
(* most r samples below it and more than r samples not above it.  The 100  *)
(* samples 10, 20, 30, 40 repeated have p50 = 25.0.                        *)
(***************************************************************************)
Ranked(s, r) ==
    CHOOSE v \in Range(s) :
        /\ Cardinality({i \in 1..Len(s) : s[i] < v}) <= r
        /\ Cardinality({i \in 1..Len(s) : s[i] <= v}) > r

\* A hundred times the value of the formula, which is an integer.
Interpolated(s, P) ==
    LET h == (Len(s) - 1) * P
        floor == h \div PctBase
        ceil == IF h % PctBase = 0 THEN floor ELSE floor + 1
    IN  PctBase * Ranked(s, floor) + (h % PctBase) * (Ranked(s, ceil) - Ranked(s, floor))

C10_LinearInterpolation ==
    /\ (Computed /\ pc = "labelstart") =>
          \A k \in 1..Len(pcts) :
              FFloor(percentiles[k]) = Interpolated(a, pcts[k]) \div PctBase
    /\ (Computed /\ a = Repeated) => percentiles[1] = FloatOf(25)

====
